---- MODULE Spec2Model ----
(***************************************************************************)
(* Model of src/bot.py: a Telegram bot that relays each text message to    *)
(* the Gemini generateContent endpoint and sends the answer back, served   *)
(* behind a Flask application with one route, POST /webhook.               *)
(*                                                                         *)
(* Two specifications:                                                     *)
(*   Spec         the registered handler (line 37) under dispatch: an      *)
(*                update is run through Application.process_update, the     *)
(*                filter decides, handle_message (lines 21-34) executes;    *)
(*                several invocations interleave.                           *)
(*   WebhookSpec  the Flask process as written (lines 39-57): requests are *)
(*                routed, the webhook view creates the process_update       *)
(*                coroutine and returns 'OK'.                               *)
(*                                                                         *)
(* Texts are sequences of one-character strings, so that trimming and      *)
(* truncation are expressible.  JSON values are tagged records.            *)
(***************************************************************************)
EXTENDS Integers, Sequences, FiniteSets, TLC

\* ------------------------------------------------------------------ bounds
\* Number of handler invocations (process_update coroutines) modelled.
MaxInv == 2
\* Number of answers of the Flask application kept under observation.
MaxReq == 3

Slots == 1..MaxInv

\* -------------------------------------------------------------- JSON values
Str(s) == [t |-> "str", s |-> s]
Arr(a) == [t |-> "arr", a |-> a]
Obj(f) == [t |-> "obj", f |-> f]
Null == [t |-> "null"]

\* Python's v[k] for a string key k: only a dict holding k answers; a list or a
\* str raises TypeError, a dict without k raises KeyError.
GetKey(v, k) ==
  IF v.t = "obj" /\ k \in DOMAIN v.f
    THEN [ok |-> TRUE, v |-> v.f[k]]
    ELSE [ok |-> FALSE, v |-> Null]

\* Python's v[0]: the first item of a non-empty list, the first character of a
\* non-empty str; IndexError on an empty one, KeyError on a dict (JSON keys are
\* strings), TypeError on None.
GetFirst(v) ==
  IF v.t = "arr" /\ Len(v.a) > 0 THEN [ok |-> TRUE, v |-> v.a[1]]
  ELSE IF v.t = "str" /\ Len(v.s) > 0 THEN [ok |-> TRUE, v |-> Str(<<v.s[1]>>)]
  ELSE [ok |-> FALSE, v |-> Null]

\* ------------------------------------------------------------------- texts
Hello == <<"H", "i">>
Padded == <<" ", "a", " ">>
SlashText == <<"/", " ", "a">>
StartCommand == <<"/", "a">>
Answer1 == <<"O", "k">>
Answer2 == <<"*", "b">>
ErrorText == <<"Error contacting Gemini API.">>

\* Characters a bot command name is made of.
CommandChars == {"a", "b"}

\* The entities Telegram attaches to a text: a bot_command entity for every
\* "/name" token (a slash at the start or after a space, followed by at least
\* one command character), with its 0-based offset.
RECURSIVE EntitiesFrom(_, _)
EntitiesFrom(text, k) ==
  IF k > Len(text) THEN <<>>
  ELSE IF /\ text[k] = "/"
          /\ (k = 1 \/ text[k - 1] = " ")
          /\ k < Len(text)
          /\ text[k + 1] \in CommandChars
    THEN <<[type |-> "bot_command", offset |-> k - 1]>> \o EntitiesFrom(text, k + 1)
    ELSE EntitiesFrom(text, k + 1)

TelegramEntities(text) == EntitiesFrom(text, 1)

TextMessage(chat, text) ==
  [chat |-> chat, kind |-> "text", text |-> text, entities |-> TelegramEntities(text)]

\* A message without text (a photo): message.text is None.
PhotoMessage(chat) ==
  [chat |-> chat, kind |-> "photo", text |-> <<>>, entities |-> <<>>]

MessageUpdate(m) == [kind |-> "message", message |-> m]

\* An update that carries no message at all.
CallbackUpdate == [kind |-> "callback_query"]

\* The updates Update.de_json produces from the posted JSON.
Updates ==
  { MessageUpdate(TextMessage(1, Hello)),
    MessageUpdate(TextMessage(2, Padded)),
    MessageUpdate(TextMessage(2, SlashText)),
    MessageUpdate(TextMessage(1, StartCommand)),
    MessageUpdate(PhotoMessage(1)),
    CallbackUpdate }

\* ----------------------------------------------------------------- filters
\* filters.TEXT: bool(message.text).
FilterText(m) == m.kind = "text" /\ Len(m.text) > 0

\* filters.COMMAND: the first entity is a bot_command at offset 0.
FilterCommand(m) ==
  /\ Len(m.entities) > 0
  /\ m.entities[1].type = "bot_command"
  /\ m.entities[1].offset = 0

\* A message filter without a message behind the update does not match.
HandlerMatchesTextOnly(u) ==
  u.kind = "message" /\ FilterText(u.message)

\* MessageHandler(filters.TEXT & ~filters.COMMAND, handle_message).check_update
HandlerMatches(u) ==
  u.kind = "message" /\ FilterText(u.message) /\ ~FilterCommand(u.message)

\* ------------------------------------------------------- the Gemini endpoint
\* {"candidates": [{"content": {"parts": [{"text": R}]}}]}
GoodBody(r) ==
  Obj([candidates |->
        Arr(<<Obj([content |-> Obj([parts |-> Arr(<<Obj([text |-> Str(r)])>>)])])>>)])

EmptyBody == Obj(<<>>)
ErrorBody == Obj([error |-> Obj([status |-> Str(<<"x">>)])])
BlockedBody == Obj([candidates |-> Arr(<<>>)])

Response(status, isJson, json) ==
  [kind |-> "response", status |-> status, isJson |-> isJson, json |-> json]

TransportError == [kind |-> "raise"]

\* What requests.post can come back with.
ApiOutcomes ==
  { TransportError,
    Response(200, TRUE, GoodBody(Answer1)),
    Response(200, TRUE, GoodBody(Answer2)),
    Response(500, TRUE, GoodBody(Answer1)),
    Response(200, TRUE, EmptyBody),
    Response(200, TRUE, BlockedBody),
    Response(500, TRUE, ErrorBody),
    Response(502, FALSE, Null) }

\* response.json(): decodes the body whatever the status; raises on a body that
\* is not JSON.
ResponseJson(resp) ==
  IF resp.isJson THEN [ok |-> TRUE, v |-> resp.json] ELSE [ok |-> FALSE, v |-> Null]

\* result['candidates'][0]['content']['parts'][0]['text']
ExtractReply(result) ==
  LET a == GetKey(result, "candidates")
      b == IF a.ok THEN GetFirst(a.v) ELSE a
      c == IF b.ok THEN GetKey(b.v, "content") ELSE b
      d == IF c.ok THEN GetKey(c.v, "parts") ELSE c
      e == IF d.ok THEN GetFirst(d.v) ELSE d
  IN  IF e.ok THEN GetKey(e.v, "text") ELSE e

\* ------------------------------------------------------------------- state
VARIABLES
  pc,            \* position of each process_update coroutine / handler invocation
  update,        \* the update each one was created for
  user_text,     \* handle_message's local user_text
  payload,       \* handle_message's local payload
  response,      \* what requests.post returned to this invocation
  gemini_reply,  \* handle_message's local gemini_reply
  posts,         \* the requests.post calls each invocation made (their json=)
  replies,       \* the reply_text calls each invocation made
  log,           \* the logging calls each invocation made
  served         \* the HTTP requests the Flask application answered

vars == <<pc, update, user_text, payload, response, gemini_reply, posts, replies,
          log, served>>

handlerVars == <<pc, update, user_text, payload, response, gemini_reply, posts,
                 replies, log>>

Init ==
  /\ pc = [i \in Slots |-> "idle"]
  /\ update = [i \in Slots |-> CallbackUpdate]
  /\ user_text = [i \in Slots |-> <<>>]
  /\ payload = [i \in Slots |-> Null]
  /\ response = [i \in Slots |-> TransportError]
  /\ gemini_reply = [i \in Slots |-> Null]
  /\ posts = [i \in Slots |-> <<>>]
  /\ replies = [i \in Slots |-> <<>>]
  /\ log = [i \in Slots |-> <<>>]
  /\ served = <<>>

\* The next unused coroutine slot.
FreeSlot(i) == pc[i] = "idle" /\ \A j \in Slots : j < i => pc[j] # "idle"

\* ------------------------------------------------------------ the handler
\* str.strip(), for a payload built from the trimmed text.
RECURSIVE Strip(_)
Strip(text) ==
  IF Len(text) = 0 THEN text
  ELSE IF Head(text) = " " THEN Strip(Tail(text))
  ELSE IF text[Len(text)] = " " THEN Strip(SubSeq(text, 1, Len(text) - 1))
  ELSE text

BuildPayloadStripped(text) ==
  Obj([contents |-> Arr(<<Obj([parts |-> Arr(<<Obj([text |-> Str(Strip(text))])>>)])>>)])

\* payload = {"contents": [{"parts": [{"text": user_text}]}]}
BuildPayload(text) ==
  Obj([contents |-> Arr(<<Obj([parts |-> Arr(<<Obj([text |-> Str(text)])>>)])>>)])

\* await application.process_update(update): the handler's filter is checked
\* and, on a match, handle_message is entered.
Dispatch(i, u) ==
  /\ FreeSlot(i)
  /\ update' = [update EXCEPT ![i] = u]
  /\ pc' = [pc EXCEPT ![i] = IF HandlerMatches(u) THEN "recv" ELSE "skipped"]
  /\ UNCHANGED <<user_text, payload, response, gemini_reply, posts, replies, log,
                 served>>

\* handle_message keeping user_text and payload in module-level globals, which
\* every invocation overwrites.
ReceiveGlobal(i) ==
  /\ pc[i] = "recv"
  /\ user_text' = [j \in Slots |-> update[i].message.text]
  /\ log' = [log EXCEPT ![i] = Append(@, "INFO")]
  /\ payload' = [j \in Slots |-> BuildPayload(update[i].message.text)]
  /\ pc' = [pc EXCEPT ![i] = "post"]
  /\ UNCHANGED <<update, response, gemini_reply, posts, replies, served>>

\* Lines 22-25: read the text, log it, build the payload.
Receive(i) ==
  /\ pc[i] = "recv"
  /\ user_text' = [user_text EXCEPT ![i] = update[i].message.text]
  /\ log' = [log EXCEPT ![i] = Append(@, "INFO")]
  /\ payload' = [payload EXCEPT ![i] = BuildPayload(update[i].message.text)]
  /\ pc' = [pc EXCEPT ![i] = "post"]
  /\ UNCHANGED <<update, response, gemini_reply, posts, replies, served>>

\* Lines 28-30: the blocking requests.post, response.json() and the subscripts.
\* Any exception leads to the except clause; otherwise the handler is about to
\* await reply_text(gemini_reply).
Post(i, o) ==
  /\ pc[i] = "post"
  /\ posts' = [posts EXCEPT ![i] = Append(@, payload[i])]
  /\ response' = [response EXCEPT ![i] = o]
  /\ LET result == IF o.kind = "raise" THEN [ok |-> FALSE, v |-> Null]
                   ELSE ResponseJson(o)
         text == IF result.ok THEN ExtractReply(result.v) ELSE result
     IN  /\ gemini_reply' = [gemini_reply EXCEPT ![i] = text.v]
         /\ pc' = [pc EXCEPT ![i] = IF text.ok THEN "reply" ELSE "except"]
  /\ UNCHANGED <<update, user_text, payload, replies, log, served>>

\* Line 31: await update.message.reply_text(gemini_reply, parse_mode='Markdown').
\* The call is inside the try block: if it raises, the except clause runs.
Reply(i, ok) ==
  /\ pc[i] = "reply"
  /\ replies' = [replies EXCEPT ![i] =
                   Append(@, [chat |-> update[i].message.chat,
                              text |-> gemini_reply[i],
                              parse_mode |-> "Markdown",
                              ok |-> ok])]
  /\ pc' = [pc EXCEPT ![i] = IF ok THEN "done" ELSE "except"]
  /\ UNCHANGED <<update, user_text, payload, response, gemini_reply, posts, log,
                 served>>

\* An except clause that posts the payload a second time before it answers.
ExceptRetry(i, ok) ==
  /\ pc[i] = "except"
  /\ log' = [log EXCEPT ![i] = Append(@, "ERROR")]
  /\ posts' = [posts EXCEPT ![i] = Append(@, payload[i])]
  /\ replies' = [replies EXCEPT ![i] =
                   Append(@, [chat |-> update[i].message.chat,
                              text |-> Str(ErrorText),
                              parse_mode |-> "None",
                              ok |-> ok])]
  /\ pc' = [pc EXCEPT ![i] = IF ok THEN "done" ELSE "raised"]
  /\ UNCHANGED <<update, user_text, payload, response, gemini_reply, served>>

\* Lines 32-34: log the error and await reply_text of the fixed string.  This
\* call is not guarded: if it raises, the exception leaves handle_message.
Except(i, ok) ==
  /\ pc[i] = "except"
  /\ log' = [log EXCEPT ![i] = Append(@, "ERROR")]
  /\ replies' = [replies EXCEPT ![i] =
                   Append(@, [chat |-> update[i].message.chat,
                              text |-> Str(ErrorText),
                              parse_mode |-> "None",
                              ok |-> ok])]
  /\ pc' = [pc EXCEPT ![i] = IF ok THEN "done" ELSE "raised"]
  /\ UNCHANGED <<update, user_text, payload, response, gemini_reply, posts, served>>

Next ==
  \/ \E i \in Slots, u \in Updates : Dispatch(i, u)
  \/ \E i \in Slots : Receive(i)
  \/ \E i \in Slots, o \in ApiOutcomes : Post(i, o)
  \/ \E i \in Slots, ok \in BOOLEAN : Reply(i, ok)
  \/ \E i \in Slots, ok \in BOOLEAN : Except(i, ok)

Spec == Init /\ [][Next]_vars

\* ------------------------------------------------------- the Flask process
\* @app.route('/webhook', methods=['POST']): the only rule of the URL map.
\* Flask adds OPTIONS to a rule's methods, and HEAD only where GET is allowed.
UrlMap == {[rule |-> "/webhook", methods |-> {"POST", "OPTIONS"}]}

Paths == {"/", "/health", "/webhook"}

RawBody == [isJson |-> FALSE, update |-> CallbackUpdate]
JsonBody(u) == [isJson |-> TRUE, update |-> u]

Request(method, path, body) == [method |-> method, path |-> path, body |-> body]

\* The requests sent to the listening port.
Requests ==
  {Request("GET", p, RawBody) : p \in Paths}
    \cup {Request("POST", "/", RawBody), Request("POST", "/webhook", RawBody)}
    \cup {Request("POST", "/webhook", JsonBody(u)) : u \in Updates}

\* Flask's URL dispatch: 404 without a rule for the path, 405 when the rule does
\* not allow the method, otherwise the view function.
FlaskDispatch(r) ==
  IF \A e \in UrlMap : e.rule # r.path THEN "404"
  ELSE IF \A e \in UrlMap : e.rule = r.path => r.method \notin e.methods THEN "405"
  ELSE "view"

HttpResponse(r, status, body) == [request |-> r, status |-> status, body |-> body]

\* The answers observed: the last MaxReq of them.
Record(resp) ==
  IF Len(served) < MaxReq THEN Append(served, resp) ELSE Append(Tail(served), resp)

\* A request no view function is run for: Flask answers with the error page.
RouteError(r) ==
  /\ FlaskDispatch(r) # "view"
  /\ served' = Record(
       IF FlaskDispatch(r) = "404" THEN HttpResponse(r, 404, "Not Found")
       ELSE HttpResponse(r, 405, "Method Not Allowed"))
  /\ UNCHANGED handlerVars

\* Lines 41-44, the view function.  request.get_json(force=True) aborts with
\* 400 on a body that is not JSON.  application.process_update(update) is a
\* coroutine function called without await from synchronous code: the call
\* creates the coroutine object and the statement drops it, nothing runs it;
\* the view returns 'OK'.
Webhook(r) ==
  /\ FlaskDispatch(r) = "view"
  /\ IF ~r.body.isJson
       THEN /\ served' = Record(HttpResponse(r, 400, "Bad Request"))
            /\ UNCHANGED handlerVars
       ELSE /\ \E i \in Slots :
                 /\ FreeSlot(i)
                 /\ update' = [update EXCEPT ![i] = r.body.update]
                 /\ pc' = [pc EXCEPT ![i] = "created"]
            /\ served' = Record(HttpResponse(r, 200, "OK"))
            /\ UNCHANGED <<user_text, payload, response, gemini_reply, posts,
                           replies, log>>

WebNext ==
  \/ \E r \in Requests : RouteError(r)
  \/ \E r \in Requests : Webhook(r)

\* app.run serves requests for as long as the process lives.
WebhookSpec == Init /\ [][WebNext]_vars /\ WF_vars(WebNext)

\* ================================================================== claims
Finished(i) == pc[i] \in {"done", "raised"}
PastPost(i) == pc[i] \in {"reply", "except", "done", "raised"}

\* The outbound call failed in the sense of the specification: a transport
\* error, a status outside 2xx, a body that is not JSON, or JSON without
\* candidates[0].content.parts[0].text.
ApiFailed(o) ==
  \/ o.kind = "raise"
  \/ o.status \notin 200..299
  \/ ~o.isJson
  \/ ~ExtractReply(o.json).ok

\* The outbound call returned well-formed JSON holding a text at the path.
ApiAnswered(o) ==
  /\ o.kind = "response"
  /\ o.isJson
  /\ ExtractReply(o.json).ok

\* contents[0].parts[0].text of a posted payload.
PayloadText(p) ==
  LET a == GetKey(p, "contents")
      b == IF a.ok THEN GetFirst(a.v) ELSE a
      c == IF b.ok THEN GetKey(b.v, "parts") ELSE b
      d == IF c.ok THEN GetFirst(c.v) ELSE c
  IN  IF d.ok THEN GetKey(d.v, "text") ELSE d

\* C1: when the outbound call raises, answers with a non-2xx status (whatever
\* the body), with a non-JSON body or with JSON lacking the text path, the
\* reply sent for the message is the fixed error string and nothing else.
C1_FailureRepliesFallbackOnly ==
  \A i \in Slots :
    (Finished(i) /\ ApiFailed(response[i])) =>
      /\ Len(replies[i]) >= 1
      /\ \A k \in DOMAIN replies[i] : replies[i][k].text = Str(ErrorText)

\* C2: when the outbound call returns well-formed JSON with text R at the path,
\* the reply sent for the message is exactly R and the error string is not sent.
C2_AnswerRepliedVerbatim ==
  \A i \in Slots :
    (Finished(i) /\ ApiAnswered(response[i])) =>
      /\ Len(replies[i]) >= 1
      /\ \A k \in DOMAIN replies[i] :
           replies[i][k].text = ExtractReply(response[i].json).v

\* C3: whatever the outbound call and the reply sends do, no exception leaves
\* handle_message.
C3_NoExceptionLeavesHandler ==
  \A i \in Slots : pc[i] # "raised"

\* C4: reply_text is used exactly once per handled message: never twice, and
\* once by the time the handler is finished.
C4_ExactlyOneReply ==
  \A i \in Slots :
    /\ Len(replies[i]) <= 1
    /\ Finished(i) => Len(replies[i]) = 1

\* C5: every non-command text update posted to /webhook eventually has
\* handle_message run for it and a reply sent.
C5_DeliveredUpdateIsHandled ==
  \A i \in Slots :
    (pc[i] = "created" /\ HandlerMatches(update[i]))
      ~> (Finished(i) /\ Len(replies[i]) >= 1)

\* C6: the process has a health endpoint: some path on which every plain (GET)
\* request is answered 200 with a non-empty body.
C6_HealthEndpointAnswers200 ==
  \E p \in Paths :
    \A k \in DOMAIN served :
      (served[k].request.method = "GET" /\ served[k].request.path = p) =>
        (served[k].status = 200 /\ served[k].body # "")

\* C7: every outbound call of an invocation carries a payload whose
\* contents[0].parts[0].text is the received message text, character for
\* character, and the call has been made once the handler is past line 28.
C7_PayloadCarriesTextVerbatim ==
  \A i \in Slots :
    /\ PastPost(i) => Len(posts[i]) >= 1
    /\ \A k \in DOMAIN posts[i] :
         /\ PayloadText(posts[i][k]).ok
         /\ PayloadText(posts[i][k]).v = Str(update[i].message.text)

C7_Witness ==
  \E i \in Slots :
    /\ pc[i] # "idle"
    /\ update[i] = MessageUpdate(TextMessage(2, Padded))
    /\ Len(posts[i]) = 1
    /\ PayloadText(posts[i][1]).v = Str(<<" ", "a", " ">>)

Own(i) == <<pc[i], update[i], user_text[i], payload[i], response[i],
            gemini_reply[i], posts[i], replies[i], log[i]>>

\* C9, the state part: what an invocation posts is its own message's text, what
\* it replies goes to its own message's chat and is the text of its own API
\* response or the fixed error string.
C9_OwnDataOnly ==
  \A i \in Slots :
    /\ \A k \in DOMAIN posts[i] :
         PayloadText(posts[i][k]).v = Str(update[i].message.text)
    /\ \A k \in DOMAIN replies[i] :
         /\ replies[i][k].chat = update[i].message.chat
         /\ \/ replies[i][k].text = Str(ErrorText)
            \/ /\ ApiAnswered(response[i])
               /\ replies[i][k].text = ExtractReply(response[i].json).v

\* C9, the step part: a step changes what at most one invocation holds.
C9_OneInvocationPerStep ==
  \A i, j \in Slots :
    (i # j /\ Own(i)' # Own(i)) => Own(j)' = Own(j)

\* C9: interleaved invocations do not interfere: each one posts and replies from
\* its own message and its own API response, to its own chat, and no step of
\* one changes what another holds.
C9_NoInterference ==
  []C9_OwnDataOnly /\ [][C9_OneInvocationPerStep]_vars

\* Two invocations in flight together, the later one finished first, in
\* different chats and with different answers.
C9_Witness ==
  /\ pc[1] = "reply"
  /\ pc[2] = "done"
  /\ update[1].message.chat # update[2].message.chat
  /\ gemini_reply[1] # gemini_reply[2]
  /\ Len(replies[2]) = 1
  /\ replies[2][1].text = Str(Answer2)

\* The update's message text starts with "/".
StartsWithSlash(u) ==
  u.kind = "message" /\ u.message.kind = "text"
    /\ Len(u.message.text) > 0 /\ u.message.text[1] = "/"

\* The update has no message text.
HasNoText(u) ==
  u.kind # "message" \/ u.message.kind # "text" \/ Len(u.message.text) = 0

\* Telegram marked the start of the message as a bot command ("/" directly
\* followed by a command name).
IsBotCommand(u) ==
  /\ u.kind = "message"
  /\ \E k \in DOMAIN u.message.entities :
       /\ k = 1
       /\ u.message.entities[k] = [type |-> "bot_command", offset |-> 0]

NotRelayed(i) ==
  pc[i] = "skipped" /\ posts[i] = <<>> /\ replies[i] = <<>>

\* C10 as stated: an update whose text starts with "/" or that has no text does
\* not reach handle_message: no outbound call, no reply.
C10_SlashOrNoTextNotRelayed ==
  \A i \in Slots :
    (pc[i] # "idle" /\ (StartsWithSlash(update[i]) \/ HasNoText(update[i])))
      => NotRelayed(i)

\* C10 amended: an update whose message starts with a bot command (its first
\* entity is a bot_command at offset 0) or that has no text does not reach
\* handle_message: no outbound call, no reply.
C10_CommandOrNoTextNotRelayed ==
  \A i \in Slots :
    (pc[i] # "idle" /\ (IsBotCommand(update[i]) \/ HasNoText(update[i])))
      => NotRelayed(i)

C10_Witness ==
  /\ pc[1] = "skipped"
  /\ update[1] = MessageUpdate(TextMessage(1, StartCommand))
  /\ pc[2] = "skipped"
  /\ update[2] = MessageUpdate(PhotoMessage(1))

====
